---------------------------- MODULE Spec2Model ----------------------------
(***************************************************************************)
(* A model of the TethysAPI binding layer: the player unit iterators and   *)
(* enumerators of API/Enumerators.h and the Game wrapper of API/Game.h.    *)
(* The host executable is modelled only through the calls the wrappers     *)
(* make into it (the call log) and the fields the wrappers read or write.  *)
(***************************************************************************)
EXTENDS Integers, Sequences, FiniteSets

VARIABLES
  \* ---- host state read by the enumerators (GameImpl / Player / MapObject)
  pPlayerNext_,     \* MapObject::pPlayerNext_, per map object
  typeID,           \* MapObject::GetTypeID(), per map object
  pVehicleList_,    \* Player::pVehicleList_
  pBuildingList_,   \* Player::pBuildingList_
  pEntityList_,     \* Player::pEntityList_
  \* ---- the enumerator object and the iterators made from it
  enumKind,         \* which of PlayerVehicleEnum / PlayerBuildingEnum / PlayerEntityEnum
  type_,            \* PlayerUnitEnumBase::type_
  cache,            \* the std::list<Unit> objects: unitCache_, a caller's list, the new'ed one
  newState,         \* life cycle of the list allocated by PlayerUnitIterator's constructor
  iters,            \* the iterator objects alive, by variable name
  lastRef,          \* the Unit& last returned by operator*
  lastEq,           \* the result of the last operator== / operator!=
  derefLog,         \* history: the units dereferenced through unitCache_, in order
  ub,               \* TRUE once the program has executed undefined behaviour
  pc,               \* position of the range-for loop
  yielded,          \* history: the units the range-for loop body has seen
  \* ---- host state behind the Game wrapper
  tick,                   \* GameImpl::tick_
  tickOfLastSetGameOpt_,  \* GameImpl::tickOfLastSetGameOpt_
  localPlayer_,           \* GameImpl::localPlayer_
  spreadSpeed,            \* the blight spread speed kept by BlightManager
  beacons,                \* head of player 6's beacon list, _Player::GetInstance(6)->GetBeacons()
  \* ---- the last call of a Game function
  api,              \* the function called and its arguments
  calls,            \* the calls into the host and the host fields written, in order
  ret               \* the value returned

enumVars == <<pPlayerNext_, typeID, pVehicleList_, pBuildingList_, pEntityList_,
              enumKind, type_, cache, newState, iters, lastRef, lastEq, derefLog,
              ub, pc, yielded>>

gameVars == <<tick, tickOfLastSetGameOpt_, localPlayer_, spreadSpeed, beacons,
              api, calls, ret>>

vars == <<enumVars, gameVars>>

-----------------------------------------------------------------------------
(* Bounds *)

\* map objects on the player's lists when the lists are walked
MaxUnits == 4

\* map objects on the player's lists when iterators are copied and dereferenced
MaxIterUnits == 3

\* dereferences through one list
MaxDerefs == 2

\* largest tile coordinate of the rectangles passed to CreateWall and CreateTube
MaxCoord == 2

\* game ticks that pass while the Game functions are called
MaxGameTick == 2

\* game ticks that pass while the clock is read
MaxTick == 250

\* largest blight spread speed
MaxSpeed == 2

\* units the host can add to player 6's beacon list
MaxBeacons == 2

\* characters of the text buffers that messages are taken from
MaxMsgLen == 2

\* units the host can find in an enumerated area
MaxAreaUnits == 2

\* largest distance the host reports to ClosestEnumerator
MaxDistance == 1

\* GetNext calls of one area loop
MaxGetNext == 3

-----------------------------------------------------------------------------
(* Map objects and the player's three unit lists *)

NULL == 0

Nodes == DOMAIN pPlayerNext_

Any == "Any"

UnitTypes == {"Tube", "MiningBeacon"}

MapIDs == UnitTypes \cup {Any}

EnumKinds == {"PlayerVehicleEnum", "PlayerBuildingEnum", "PlayerEntityEnum"}

\* There are n map objects: 1..a are the vehicles, a+1..b the buildings, b+1..n the
\* entities; each list is null-terminated and its head is the newest object.
HeapInit(n) ==
  \E a \in 0 .. n : \E b \in a .. n :
    /\ pPlayerNext_ = [m \in 1 .. n |-> IF m \in {1, a + 1, b + 1} THEN NULL ELSE m - 1]
    /\ pVehicleList_ = IF a >= 1 THEN a ELSE NULL
    /\ pBuildingList_ = IF b > a THEN b ELSE NULL
    /\ pEntityList_ = IF n > b THEN n ELSE NULL
    /\ typeID \in [1 .. n -> UnitTypes]

-----------------------------------------------------------------------------
(* PlayerUnitIterator and FilterPlayerUnitIterator *)

NoIter == [live |-> FALSE]

SlotNames == {"it", "other"}

CacheNames == {"unitCache_", "callerList", "new"}

\* PlayerUnitIterator(pUnitCache, pMo): a null cache pointer is replaced by a new list
PlayerUnitIterator(pUnitCache, pMo) ==
  [live |-> TRUE, pMo_ |-> pMo,
   pUnitCache_ |-> IF pUnitCache = "nullptr" THEN "new" ELSE pUnitCache,
   freeCache_ |-> (pUnitCache = "nullptr")]

\* PlayerUnitIterator::operator++
PlayerUnitIteratorInc(i) ==
  [i EXCEPT !.pMo_ = IF i.pMo_ # NULL THEN pPlayerNext_[i.pMo_] ELSE NULL]

RECURSIVE DoWhileInc(_)
\* do PlayerUnitIterator::operator++(); while (pMo_ && (pMo_->GetTypeID() != type_));
DoWhileInc(i) ==
  LET n == PlayerUnitIteratorInc(i)
  IN  IF n.pMo_ # NULL /\ typeID[n.pMo_] # n.type_ THEN DoWhileInc(n) ELSE n

\* an operator++ that takes one step whatever the type of the unit it lands on
FilterIncOneStep(i) == PlayerUnitIteratorInc(i)

\* FilterPlayerUnitIterator::operator++
FilterInc(i) ==
  IF i.type_ = Any THEN PlayerUnitIteratorInc(i) ELSE DoWhileInc(i)

\* a constructor that leaves the iterator on the starting unit whatever its type
FilterCtorNoSkip(src, type) ==
  [live |-> TRUE, pMo_ |-> src.pMo_, pUnitCache_ |-> src.pUnitCache_,
   freeCache_ |-> src.freeCache_, type_ |-> type]

\* FilterPlayerUnitIterator(PlayerUnitIterator src, MapID type)
FilterPlayerUnitIterator(src, type) ==
  LET i == [live |-> TRUE, pMo_ |-> src.pMo_, pUnitCache_ |-> src.pUnitCache_,
            freeCache_ |-> src.freeCache_, type_ |-> type]
  IN  IF i.pMo_ # NULL /\ type # Any /\ typeID[i.pMo_] # type THEN FilterInc(i) ELSE i

\* operator== of two iterators
IterEq(i, j) == i.pMo_ = j.pMo_

\* operator bool
IterBool(i) == i.pMo_ # NULL

\* operator*: pUnitCache_->emplace_back(pMo_), the new last element is returned
EmplaceBack(c, i) == [c EXCEPT ![i.pUnitCache_] = Append(@, i.pMo_)]

\* a destructor that deletes the list whether or not the iterator owns it
DestructorAlwaysDeletes(i) ==
  [cache |-> [cache EXCEPT ![i.pUnitCache_] = <<>>], state |-> newState, ub |-> FALSE]

\* ~PlayerUnitIterator: if (freeCache_) delete pUnitCache_; the deleted list loses its
\* elements, and a second delete of the same list is undefined behaviour
Destructor(i) ==
  IF ~i.freeCache_ THEN [cache |-> cache, state |-> newState, ub |-> FALSE]
  ELSE IF newState = "deleted" THEN [cache |-> cache, state |-> newState, ub |-> TRUE]
  ELSE [cache |-> [cache EXCEPT ![i.pUnitCache_] = <<>>], state |-> "deleted", ub |-> FALSE]

\* the list head that begin() of the enumerator reads
ListHead ==
  CASE enumKind = "PlayerVehicleEnum" -> pVehicleList_
    [] enumKind = "PlayerBuildingEnum" -> pBuildingList_
    [] enumKind = "PlayerEntityEnum" -> pEntityList_

\* PlayerVehicleEnum / PlayerBuildingEnum / PlayerEntityEnum :: begin()
EnumBegin == FilterPlayerUnitIterator(PlayerUnitIterator("unitCache_", ListHead), type_)

\* PlayerUnitEnumBase::end()
EnumEnd == FilterPlayerUnitIterator(PlayerUnitIterator("unitCache_", NULL), type_)

\* the Game wrapper is not called: the host fields keep their values
GameIdle ==
  /\ tick = 0
  /\ tickOfLastSetGameOpt_ = 0
  /\ localPlayer_ = 0
  /\ spreadSpeed = 0
  /\ beacons = NULL
  /\ api = [fn |-> "none"]
  /\ calls = <<>>
  /\ ret = NULL

EnumInit(n) ==
  /\ HeapInit(n)
  /\ GameIdle
  /\ enumKind \in EnumKinds
  /\ type_ \in MapIDs
  /\ cache = [c \in CacheNames |-> <<>>]
  /\ newState = "unallocated"
  /\ iters = [s \in SlotNames |-> NoIter]
  /\ lastRef = [cache |-> "none", idx |-> 0, unit |-> NULL]
  /\ lastEq = "none"
  /\ derefLog = <<>>
  /\ ub = FALSE
  /\ pc = "idle"
  /\ yielded = <<>>

\* what no iterator operation touches: the host's lists, the enumerator, the Game state
heapVars == <<pPlayerNext_, typeID, pVehicleList_, pBuildingList_, pEntityList_,
              enumKind, type_, gameVars>>

-----------------------------------------------------------------------------
(* The range-for loop over an enumerator:  for (Unit& u : e) { ... }        *)

LoopBegin ==
  /\ pc = "idle"
  /\ iters' = [iters EXCEPT !["it"] = EnumBegin, !["other"] = EnumEnd]
  /\ pc' = "loop"
  /\ UNCHANGED <<heapVars, cache, newState, lastRef, lastEq, derefLog, ub, yielded>>

\* it != end: the body sees *it, then ++it
LoopStep ==
  /\ pc = "loop"
  /\ ~IterEq(iters["it"], iters["other"])
  /\ cache' = EmplaceBack(cache, iters["it"])
  /\ lastRef' = [cache |-> iters["it"].pUnitCache_,
                 idx |-> Len(cache'[iters["it"].pUnitCache_]),
                 unit |-> iters["it"].pMo_]
  /\ derefLog' = Append(derefLog, iters["it"].pMo_)
  /\ yielded' = Append(yielded, cache'[lastRef'.cache][lastRef'.idx])
  /\ iters' = [iters EXCEPT !["it"] = FilterInc(iters["it"])]
  /\ lastEq' = FALSE
  /\ UNCHANGED <<heapVars, newState, ub, pc>>

\* it == end: the loop ends and both iterators are destroyed
LoopExit ==
  /\ pc = "loop"
  /\ IterEq(iters["it"], iters["other"])
  /\ pc' = "done"
  /\ lastEq' = TRUE
  /\ iters' = [s \in SlotNames |-> NoIter]
  /\ cache' = Destructor(iters["it"]).cache
  /\ UNCHANGED <<heapVars, newState, lastRef, derefLog, ub, yielded>>

LoopNext == LoopBegin \/ LoopStep \/ LoopExit

SpecLoop == EnumInit(MaxUnits) /\ [][LoopNext]_vars

-----------------------------------------------------------------------------
(* Free use of the iterators: the operations a caller can apply to them     *)

\* it = e.begin()
Begin(s) ==
  /\ ~ub /\ pc = "idle"
  /\ iters' = [iters EXCEPT ![s] = EnumBegin]
  /\ UNCHANGED <<heapVars, cache, newState, lastRef, derefLog, ub, pc, yielded>>
  /\ lastEq' = "none"

\* it = e.end()
End(s) ==
  /\ ~ub /\ pc = "idle"
  /\ iters' = [iters EXCEPT ![s] = EnumEnd]
  /\ UNCHANGED <<heapVars, cache, newState, lastRef, derefLog, ub, pc, yielded>>
  /\ lastEq' = "none"

\* FilterPlayerUnitIterator it(pUnitCache, pMo, type) with a caller's list or with
\* nullptr; with nullptr the temporary PlayerUnitIterator allocates the list and
\* deletes it again when it is destroyed at the end of the constructor call
Construct(s, pUnitCache, pMo, type) ==
  /\ ~ub /\ pc = "idle"
  /\ ~iters[s].live
  /\ pUnitCache = "nullptr" => newState = "unallocated"
  /\ iters' = [iters EXCEPT
                 ![s] = FilterPlayerUnitIterator(PlayerUnitIterator(pUnitCache, pMo), type)]
  /\ newState' = IF pUnitCache = "nullptr" THEN "deleted" ELSE newState
  /\ UNCHANGED <<heapVars, cache, lastRef, derefLog, ub, pc, yielded>>
  /\ lastEq' = "none"

\* ++it
PreInc(s) ==
  /\ ~ub /\ pc = "idle"
  /\ iters[s].live
  /\ iters' = [iters EXCEPT ![s] = FilterInc(iters[s])]
  /\ UNCHANGED <<heapVars, cache, newState, lastRef, derefLog, ub, pc, yielded>>
  /\ lastEq' = "none"

\* other = it++   (auto v = *this; operator++(); return v;)
PostInc(s, t) ==
  /\ ~ub /\ pc = "idle"
  /\ s # t
  /\ iters[s].live
  /\ LET v == iters[s]
     IN  iters' = [iters EXCEPT ![s] = FilterInc(iters[s]), ![t] = v]
  /\ UNCHANGED <<heapVars, cache, newState, lastRef, derefLog, ub, pc, yielded>>
  /\ lastEq' = "none"

\* it++;  the returned copy is a temporary, destroyed at once
PostIncDiscard(s) ==
  /\ ~ub /\ pc = "idle"
  /\ iters[s].live
  /\ LET v == iters[s]
     IN  /\ iters' = [iters EXCEPT ![s] = FilterInc(iters[s])]
         /\ cache' = Destructor(v).cache
         /\ newState' = Destructor(v).state
         /\ ub' = Destructor(v).ub
  /\ UNCHANGED <<heapVars, lastRef, derefLog, pc, yielded>>
  /\ lastEq' = "none"

\* other = it   (the implicit copy)
CopyIter(s, t) ==
  /\ ~ub /\ pc = "idle"
  /\ s # t
  /\ iters[s].live
  /\ iters' = [iters EXCEPT ![t] = iters[s]]
  /\ UNCHANGED <<heapVars, cache, newState, lastRef, derefLog, ub, pc, yielded>>
  /\ lastEq' = "none"

\* the iterator goes out of scope
Destroy(s) ==
  /\ ~ub /\ pc = "idle"
  /\ iters[s].live
  /\ iters' = [iters EXCEPT ![s] = NoIter]
  /\ cache' = Destructor(iters[s]).cache
  /\ newState' = Destructor(iters[s]).state
  /\ ub' = Destructor(iters[s]).ub
  /\ UNCHANGED <<heapVars, lastRef, derefLog, pc, yielded>>
  /\ lastEq' = "none"

\* Unit& u = *it;  emplace_back into a deleted list is undefined behaviour
Deref(s) ==
  /\ ~ub /\ pc = "idle"
  /\ iters[s].live
  /\ Len(cache[iters[s].pUnitCache_]) < MaxDerefs
  /\ IF iters[s].pUnitCache_ = "new" /\ newState = "deleted"
       THEN /\ ub' = TRUE
            /\ UNCHANGED <<cache, lastRef, derefLog>>
       ELSE /\ cache' = EmplaceBack(cache, iters[s])
            /\ lastRef' = [cache |-> iters[s].pUnitCache_,
                           idx |-> Len(cache'[iters[s].pUnitCache_]),
                           unit |-> iters[s].pMo_]
            /\ derefLog' = IF iters[s].pUnitCache_ = "unitCache_"
                             THEN Append(derefLog, iters[s].pMo_) ELSE derefLog
            /\ ub' = ub
  /\ UNCHANGED <<heapVars, newState, iters, pc, yielded>>
  /\ lastEq' = "none"

\* it == other
Compare(s, t) ==
  /\ ~ub /\ pc = "idle"
  /\ s # t
  /\ iters[s].live /\ iters[t].live
  /\ lastEq' = IterEq(iters[s], iters[t])
  /\ UNCHANGED <<heapVars, cache, newState, iters, lastRef, derefLog, ub, pc, yielded>>

IterNext ==
  \/ \E s \in SlotNames : Begin(s)
  \/ \E s \in SlotNames : End(s)
  \/ \E s \in SlotNames : PreInc(s)
  \/ \E s, t \in SlotNames : PostInc(s, t)
  \/ \E s \in SlotNames : PostIncDiscard(s)
  \/ \E s, t \in SlotNames : CopyIter(s, t)
  \/ \E s \in SlotNames : Destroy(s)
  \/ \E s \in SlotNames : Deref(s)
  \/ \E s, t \in SlotNames : Compare(s, t)

\* iterators constructed directly, over one list that holds every map object
FilterInit ==
  /\ EnumInit(MaxUnits)
  /\ pVehicleList_ = MaxUnits
  /\ enumKind = "PlayerVehicleEnum"
  /\ type_ = Any

FilterNext ==
  \/ \E s \in SlotNames, c \in {"nullptr", "callerList"}, m \in Nodes \cup {NULL},
        t \in MapIDs : Construct(s, c, m, t)
  \/ \E s \in SlotNames : PreInc(s)
  \/ \E s, t \in SlotNames : PostInc(s, t)
  \/ \E s \in SlotNames : PostIncDiscard(s)
  \/ \E s, t \in SlotNames : CopyIter(s, t)
  \/ \E s \in SlotNames : Destroy(s)
  \/ \E s, t \in SlotNames : Compare(s, t)

SpecFilter == FilterInit /\ [][FilterNext]_vars

SpecIter == EnumInit(MaxIterUnits) /\ [][IterNext]_vars

-----------------------------------------------------------------------------
(* Properties of the player unit iterators and enumerators *)

RECURSIVE ListSeq(_)
\* the units of a null-terminated list, from m on, following pPlayerNext_
ListSeq(m) == IF m = NULL THEN <<>> ELSE <<m>> \o ListSeq(pPlayerNext_[m])

Matches(m, t) == t = Any \/ typeID[m] = t

RECURSIVE Filtered(_, _)
Filtered(q, t) ==
  IF q = <<>> THEN <<>>
  ELSE (IF Matches(Head(q), t) THEN <<Head(q)>> ELSE <<>>) \o Filtered(Tail(q), t)

\* C1: a FilterPlayerUnitIterator whose filter type is not MapID::Any is, after its
\* construction from any starting unit and after every pre- or post-increment, at end
\* (pMo_ is null) or on a unit whose GetTypeID() equals the filter type.
C1_FilterRestsOnMatchingUnit ==
  \A s \in SlotNames :
    (iters[s].live /\ iters[s].type_ # Any) =>
      (iters[s].pMo_ = NULL \/ typeID[iters[s].pMo_] = iters[s].type_)

\* a post-increment that skipped a unit of another type: "other" holds the copy made
\* before the increment, "it" rests two units further down the list
C1_Witness ==
  /\ iters["it"].live /\ iters["other"].live
  /\ iters["it"].type_ # Any /\ iters["other"].type_ = iters["it"].type_
  /\ iters["other"].pMo_ # NULL /\ iters["it"].pMo_ # NULL
  /\ pPlayerNext_[iters["other"].pMo_] # NULL
  /\ pPlayerNext_[pPlayerNext_[iters["other"].pMo_]] = iters["it"].pMo_
  /\ typeID[pPlayerNext_[iters["other"].pMo_]] # iters["it"].type_

\* the list the enumerator walks, by its class
EnumeratedList ==
  IF enumKind = "PlayerVehicleEnum" THEN ListSeq(pVehicleList_)
  ELSE IF enumKind = "PlayerBuildingEnum" THEN ListSeq(pBuildingList_)
  ELSE ListSeq(pEntityList_)

\* C2: a loop from begin() until the iterator equals end(), over a null-terminated list
\* that is not changed meanwhile, yields exactly the units of the list whose type is the
\* enumerator's type (every unit for MapID::Any), each once and in list order.
C2_LoopYieldsFilteredList ==
  pc = "done" => yielded = Filtered(EnumeratedList, type_)

\* a finished loop with a type filter that yielded two units and passed over a third
C2_Witness ==
  /\ pc = "done"
  /\ type_ # Any
  /\ Len(yielded) >= 2
  /\ Len(EnumeratedList) > Len(yielded)
  /\ ~Matches(EnumeratedList[2], type_)

\* C3: every operator* of an iterator made by the enumerator appends one entry, for the
\* iterator's current unit, to unitCache_, and no increment, copy, comparison or
\* destruction removes or changes an entry: the cache is the sequence of the units
\* dereferenced so far, and the reference last returned is still an entry of it.
C3_CacheHoldsEveryReturnedUnit ==
  /\ cache["unitCache_"] = derefLog
  /\ lastRef.cache = "unitCache_" =>
       /\ lastRef.idx \in 1 .. Len(cache["unitCache_"])
       /\ cache["unitCache_"][lastRef.idx] = lastRef.unit

\* two units were dereferenced and every iterator has been destroyed since
C3_Witness ==
  /\ Len(derefLog) = 2
  /\ derefLog[1] # derefLog[2]
  /\ derefLog[2] # NULL
  /\ \A s \in SlotNames : ~iters[s].live

-----------------------------------------------------------------------------
(* The Game wrapper.  A wrapper function is an operator on the host record   *)
(* h: the host fields it can change and the log of what it did to the host.  *)

HostNow ==
  [tickOfLast |-> tickOfLastSetGameOpt_, speed |-> spreadSpeed, beacons |-> beacons,
   calls |-> <<>>]

Commit(h) ==
  /\ tickOfLastSetGameOpt_' = h.tickOfLast
  /\ spreadSpeed' = h.speed
  /\ beacons' = h.beacons
  /\ calls' = h.calls

Log(h, entry) == [h EXCEPT !.calls = Append(@, entry)]

\* the int -> uint16 conversion of an argument
ToUint16(v) == v % 65536

\* the C++ integer division, which truncates toward zero
CDiv(a, b) == IF a >= 0 THEN a \div b ELSE -((-a) \div b)

LocalPlayer == localPlayer_

Tick == tick

Time == CDiv(Tick, 4)

\* a Mark() that divides the time, not the tick
MarkOfTime == CDiv(Time, 100)

Mark == CDiv(Tick, 100)

\* the host processes a GameOpt packet: it notes the tick, which is what raises the
\* "cheated game!" alert when the tick is past 0
ProcessCommandPacket(h, playerNum, packet) ==
  Log([h EXCEPT !.tickOfLast = tick],
      [fn |-> "ProcessCommandPacket", player |-> playerNum, packet |-> packet])

\* a DismissCheatedGameAlert that leaves the field alone
DismissNothing(h) == h

DismissCheatedGameAlert(h) ==
  Log([h EXCEPT !.tickOfLast = 0], [fn |-> "write tickOfLastSetGameOpt_", value |-> 0])

SetGameOpt(h, variableID, param1, param2) ==
  LET packet == [type |-> "GameOpt",
                 gameOpt |-> <<0, variableID, ToUint16(param1), ToUint16(param2)>>]
  IN  DismissCheatedGameAlert(ProcessCommandPacket(h, LocalPlayer, packet))

GameOptID(name, plus) == [base |-> name, plus |-> plus]

BoolToInt(b) == IF b THEN 1 ELSE 0

SetDaylightEverywhere(h, on) ==
  SetGameOpt(h, GameOptID("DaylightEverywhere", 0), BoolToInt(on), 0)

SetDaylightMoves(h, on) ==
  SetGameOpt(h, GameOptID("DaylightMoves", 0), BoolToInt(on), 0)

FreeMoraleLevel(h, player) ==
  SetGameOpt(h, GameOptID("FreeMoraleLevel", 0), player, 0)

ForceMoraleLevel(h, moraleLevel, player) ==
  SetGameOpt(h, GameOptID("ForceMoraleExcellent", ToUint16(moraleLevel)), player, 0)

MinTechID == 8000

MaxTechID == 12095

\* a range check that forgets the lower limit
TechIDBelowMax(techID) == techID <= MaxTechID

InTechRange(techID) == (techID >= MinTechID) /\ (techID <= MaxTechID)

\* the host creates a unit for player 6: it becomes the head of the beacon list
HostAddsBeacon(h) == [h EXCEPT !.beacons = @ + 1]

\* CreateWreckage; ok is what the host's function returns when it is called
CreateWreckage(h, location, techID, isDiscovered, ok) ==
  IF InTechRange(techID)
    THEN LET h1 == Log(IF ok THEN HostAddsBeacon(h) ELSE h,
                       [fn |-> "0x4789F0", x |-> location.x, y |-> location.y,
                        techID |-> techID, isDiscovered |-> BoolToInt(isDiscovered),
                        result |-> ok])
         IN  [h |-> h1, ret |-> IF ok THEN h1.beacons ELSE NULL]
    ELSE [h |-> h, ret |-> NULL]

\* CreateWall(MapID type, Location location)
CreateWall(h, type, location) ==
  Log(h, [fn |-> "0x478AA0", x |-> location.x, y |-> location.y, z |-> 0, type |-> type])

RECURSIVE WallRowExclusive(_, _, _, _, _)
\* an inner loop that stops one tile short: x < area.x2
WallRowExclusive(h, type, x, y, x2) ==
  IF x < x2
    THEN WallRowExclusive(CreateWall(h, type, [x |-> x, y |-> y]), type, x + 1, y, x2)
    ELSE h

RECURSIVE WallRow(_, _, _, _, _)
\* for (int x = area.x1; x <= area.x2; CreateWall(type, Location(x++, y)));
WallRow(h, type, x, y, x2) ==
  IF x <= x2
    THEN WallRow(CreateWall(h, type, [x |-> x, y |-> y]), type, x + 1, y, x2)
    ELSE h

RECURSIVE WallRows(_, _, _, _)
\* for (int y = area.y1; y <= area.y2; ++y) ...
WallRows(h, type, area, y) ==
  IF y <= area.y2
    THEN WallRows(WallRow(h, type, area.x1, y, area.x2), type, area, y + 1)
    ELSE h

\* CreateWall(MapID type, const MapRect& area)
CreateWallArea(h, type, area) == WallRows(h, type, area, area.y1)

CreateTube(h, location) == CreateWall(h, "Tube", location)

CreateTubeArea(h, area) == CreateWallArea(h, "Tube", area)

\* BlightManager::SetSpreadSpeed, in the host
SetBlightSpeed(h, speed) ==
  Log([h EXCEPT !.speed = speed], [fn |-> "BlightManager::SetSpreadSpeed", speed |-> speed])

\* a CreateBlight that sets the speed whatever its sign
CreateBlightAlwaysSets(h, where, speed) ==
  Log(SetBlightSpeed(h, speed),
      [fn |-> "0x476EA0", x |-> where.x, y |-> where.y, flag |-> 1])

CreateBlight(h, where, speed) ==
  Log(IF speed >= 0 THEN SetBlightSpeed(h, speed) ELSE h,
      [fn |-> "0x476EA0", x |-> where.x, y |-> where.y, flag |-> 1])

UnsetBlight(h, where) ==
  Log(h, [fn |-> "0x476EA0", x |-> where.x, y |-> where.y, flag |-> 0])

\* enum class MeteorSize : int { Random = -1, Small, Medium, Large }: an enumerator
\* without an initializer is one more than the one before it
MeteorSizes == <<"Random", "Small", "Medium", "Large">>

MeteorSizeValue(size) == (CHOOSE k \in 1 .. Len(MeteorSizes) : MeteorSizes[k] = size) - 2

\* DisasterThunk: pUnit is what the host's function returns
DisasterThunk(h, immediate, entry, pUnit) ==
  LET h1 == Log(h, entry)
  IN  [h |-> IF pUnit # NULL /\ immediate
               THEN Log(h1, [fn |-> "StartDisaster", unit |-> pUnit]) ELSE h1,
       ret |-> pUnit]

CreateMeteor(h, where, size, immediate, pUnit) ==
  DisasterThunk(h, immediate,
                [fn |-> "0x4783B0", x |-> where.x, y |-> where.y,
                 size |-> MeteorSizeValue(size)], pUnit)

\* enum class MineType; RandomOre, CommonOre and RareOre take the values of OreType
MineTypeValue ==
  [RandomOre |-> -1, CommonOre |-> 0, RareOre |-> 1, MagmaVent |-> -2, Fumarole |-> -3]

MineTypes == DOMAIN MineTypeValue

\* max(type, MineType::RandomOre)
MaxWithRandomOre(type) ==
  IF MineTypeValue[type] < MineTypeValue["RandomOre"] THEN "RandomOre" ELSE type

RandRange == 10

\* a pre-generation with the limits one off
PreGenYieldStrict(result) ==
  IF result < 1 THEN "Bar3" ELSE IF result < 7 THEN "Bar2" ELSE "Bar1"

\* yield = (result <= 1) ? Bar3 : (result <= 7) ? Bar2 : Bar1
PreGenYield(result) ==
  IF result <= 1 THEN "Bar3" ELSE IF result <= 7 THEN "Bar2" ELSE "Bar1"

\* CreateMine; rand is what GetRand(10) returns if it is called, ok what the host's
\* function returns
CreateMine(h, location, type, yield, variant, rand, ok) ==
  LET mapID == IF type = "MagmaVent" THEN "MagmaVent"
               ELSE IF type = "Fumarole" THEN "Fumarole" ELSE "MiningBeacon"
      pre == (mapID = "MiningBeacon") /\ (yield = "Random") /\ (variant # "Random")
      h1 == IF pre THEN Log(h, [fn |-> "GetRand", range |-> RandRange, result |-> rand])
            ELSE h
      yield2 == IF pre THEN PreGenYield(rand) ELSE yield
      varNum == <<yield2, variant>>
      h2 == Log(h1, [fn |-> "GetVariantNum", yield |-> yield2, variant |-> variant])
      h3 == Log(IF ok THEN HostAddsBeacon(h2) ELSE h2,
                [fn |-> "0x478940", mapID |-> mapID, x |-> location.x, y |-> location.y,
                 type |-> MaxWithRandomOre(type), yield |-> yield2, varNum |-> varNum,
                 result |-> ok])
  IN  [h |-> h3, ret |-> IF ok THEN h3.beacons ELSE NULL]

-----------------------------------------------------------------------------
(* The calls a mission makes, and the host's clock *)

Coords == 0 .. MaxCoord

MapRects == [x1 : Coords, y1 : Coords, x2 : Coords, y2 : Coords]

\* the tiles passed where one tile is the argument
Tiles == {[x |-> 0, y |-> 0], [x |-> 1, y |-> MaxCoord]}

WallTypes == {"Tube", "Wall"}

\* player arguments: AllPlayers (-1) and the players
PlayerArgs == {-1, 0, 1}

MoraleLevels == {0, 4}

GameOpts == {GameOptID("DaylightEverywhere", 0), GameOptID("FreeMoraleLevel", 0)}

TechIDs == {MinTechID - 1, MinTechID, MaxTechID, MaxTechID + 1}

Speeds == -2 .. MaxSpeed

OreYields == {"Random", "Bar3", "Bar2", "Bar1"}

OreVariants == {"Random", "1", "2"}

\* the iterators are not used while the Game functions are called
EnumIdle ==
  /\ HeapInit(0)
  /\ enumKind = "PlayerVehicleEnum"
  /\ type_ = Any
  /\ cache = [c \in CacheNames |-> <<>>]
  /\ newState = "unallocated"
  /\ iters = [s \in SlotNames |-> NoIter]
  /\ lastRef = [cache |-> "none", idx |-> 0, unit |-> NULL]
  /\ lastEq = "none"
  /\ derefLog = <<>>
  /\ ub = FALSE
  /\ pc = "idle"
  /\ yielded = <<>>

\* the host fields when the mission starts to call the Game functions
GameInit ==
  /\ EnumIdle
  /\ tick = 0
  /\ tickOfLastSetGameOpt_ = 0
  /\ localPlayer_ = 0
  /\ spreadSpeed \in 0 .. MaxSpeed
  /\ beacons = NULL
  /\ api = [fn |-> "none"]
  /\ calls = <<>>
  /\ ret = NULL

\* the host advances the game by one tick
GameTick(limit) ==
  /\ tick < limit
  /\ tick' = tick + 1
  /\ UNCHANGED <<enumVars, tickOfLastSetGameOpt_, localPlayer_, spreadSpeed, beacons,
                 api, calls, ret>>

\* a player other than through this wrapper sets a game option: the host notes the tick
HostSetsGameOpt ==
  /\ tickOfLastSetGameOpt_' = tick
  /\ api' = [fn |-> "none"]
  /\ calls' = <<>>
  /\ ret' = NULL
  /\ UNCHANGED <<enumVars, tick, localPlayer_, spreadSpeed, beacons>>

\* a Game function that returns nothing was called
Called(a, h) ==
  /\ api' = a
  /\ Commit(h)
  /\ ret' = NULL
  /\ UNCHANGED <<enumVars, tick, localPlayer_>>

\* a Game function that returns a Unit was called
CalledRet(a, r) ==
  /\ api' = a
  /\ Commit(r.h)
  /\ ret' = r.ret
  /\ UNCHANGED <<enumVars, tick, localPlayer_>>

DoSetGameOpt ==
  \E v \in GameOpts, p1 \in {0, 1}, p2 \in {0, 1} :
    Called([fn |-> "SetGameOpt", variableID |-> v, param1 |-> p1, param2 |-> p2],
           SetGameOpt(HostNow, v, p1, p2))

DoSetDaylightEverywhere ==
  \E on \in BOOLEAN :
    Called([fn |-> "SetDaylightEverywhere", on |-> on], SetDaylightEverywhere(HostNow, on))

DoSetDaylightMoves ==
  \E on \in BOOLEAN :
    Called([fn |-> "SetDaylightMoves", on |-> on], SetDaylightMoves(HostNow, on))

DoFreeMoraleLevel ==
  \E p \in PlayerArgs :
    Called([fn |-> "FreeMoraleLevel", player |-> p], FreeMoraleLevel(HostNow, p))

DoForceMoraleLevel ==
  \E m \in MoraleLevels, p \in PlayerArgs :
    Called([fn |-> "ForceMoraleLevel", moraleLevel |-> m, player |-> p],
           ForceMoraleLevel(HostNow, m, p))

DoCreateWreckage ==
  \E l \in Tiles, t \in TechIDs, d \in BOOLEAN, ok \in BOOLEAN :
    /\ ok => beacons < MaxBeacons
    /\ CalledRet([fn |-> "CreateWreckage", location |-> l, techID |-> t,
                  isDiscovered |-> d],
                 CreateWreckage(HostNow, l, t, d, ok))

DoCreateWall ==
  \E t \in WallTypes, l \in Tiles :
    Called([fn |-> "CreateWall", type |-> t, location |-> l], CreateWall(HostNow, t, l))

DoCreateWallArea ==
  \E t \in WallTypes, a \in MapRects :
    Called([fn |-> "CreateWallArea", type |-> t, area |-> a], CreateWallArea(HostNow, t, a))

DoCreateTube ==
  \E l \in Tiles :
    Called([fn |-> "CreateTube", location |-> l], CreateTube(HostNow, l))

DoCreateTubeArea ==
  \E a \in MapRects :
    Called([fn |-> "CreateTubeArea", area |-> a], CreateTubeArea(HostNow, a))

DoSetBlightSpeed ==
  \E v \in 0 .. MaxSpeed :
    Called([fn |-> "SetBlightSpeed", spreadSpeed |-> v], SetBlightSpeed(HostNow, v))

DoCreateBlight ==
  \E l \in Tiles, v \in Speeds :
    Called([fn |-> "CreateBlight", where |-> l, spreadSpeed |-> v, before |-> spreadSpeed],
           CreateBlight(HostNow, l, v))

DoUnsetBlight ==
  \E l \in Tiles :
    Called([fn |-> "UnsetBlight", where |-> l, before |-> spreadSpeed],
           UnsetBlight(HostNow, l))

DoCreateMeteor ==
  \E l \in Tiles, z \in {MeteorSizes[k] : k \in 1 .. Len(MeteorSizes)}, i \in BOOLEAN,
     u \in {NULL, 1} :
    CalledRet([fn |-> "CreateMeteor", where |-> l, size |-> z, immediate |-> i],
              CreateMeteor(HostNow, l, z, i, u))

DoCreateMine ==
  \E l \in Tiles, t \in MineTypes, y \in OreYields, v \in OreVariants, ok \in BOOLEAN :
  \E r \in IF t \in {"MagmaVent", "Fumarole"} \/ y # "Random" \/ v = "Random"
             THEN {0} ELSE 0 .. RandRange - 1 :
    /\ ok => beacons < MaxBeacons
    /\ CalledRet([fn |-> "CreateMine", location |-> l, type |-> t, yield |-> y,
                  variant |-> v],
                 CreateMine(HostNow, l, t, y, v, r, ok))

\* the unit creation, blight and meteor functions
GameNext ==
  \/ DoCreateWreckage
  \/ DoSetBlightSpeed
  \/ DoCreateBlight
  \/ DoUnsetBlight
  \/ DoCreateMeteor
  \/ DoCreateMine

SpecGame == GameInit /\ [][GameNext]_vars

\* walls and tubes
WallInit ==
  /\ GameInit
  /\ spreadSpeed = 0

WallNext ==
  \/ DoCreateWall
  \/ DoCreateWallArea
  \/ DoCreateTube
  \/ DoCreateTubeArea

SpecWall == WallInit /\ [][WallNext]_vars

\* the game options, set while the game runs, by either local player
OptInit ==
  /\ EnumIdle
  /\ tick = 0
  /\ tickOfLastSetGameOpt_ = 0
  /\ localPlayer_ \in {0, 1}
  /\ spreadSpeed = 0
  /\ beacons = NULL
  /\ api = [fn |-> "none"]
  /\ calls = <<>>
  /\ ret = NULL

OptNext ==
  \/ GameTick(MaxGameTick)
  \/ HostSetsGameOpt
  \/ DoSetGameOpt
  \/ DoSetDaylightEverywhere
  \/ DoSetDaylightMoves
  \/ DoFreeMoraleLevel
  \/ DoForceMoraleLevel

SpecOpt == OptInit /\ [][OptNext]_vars

\* the clock alone, over many ticks
ClockInit ==
  /\ GameInit
  /\ spreadSpeed = 0

SpecClock == ClockInit /\ [][GameTick(MaxTick)]_vars

-----------------------------------------------------------------------------
(* Properties of the Game wrapper *)

OptFunctions ==
  {"SetGameOpt", "SetDaylightEverywhere", "SetDaylightMoves", "FreeMoraleLevel",
   "ForceMoraleLevel"}

\* C4: every call of SetGameOpt, SetDaylightEverywhere, SetDaylightMoves,
\* FreeMoraleLevel or ForceMoraleLevel, at any tick, has the GameOpt packet processed
\* by the local player first and resets tickOfLastSetGameOpt_ to 0 afterwards, so the
\* field is 0 after any sequence of these calls.
C4_SetGameOptLeavesNoAlert ==
  api.fn \in OptFunctions =>
    /\ tickOfLastSetGameOpt_ = 0
    /\ Len(calls) = 2
    /\ calls[1].fn = "ProcessCommandPacket"
    /\ calls[1].player = localPlayer_
    /\ calls[1].packet.type = "GameOpt"
    /\ calls[2] = [fn |-> "write tickOfLastSetGameOpt_", value |-> 0]

\* the morale level was forced by local player 1 after tick 0
C4_Witness ==
  /\ api.fn = "ForceMoraleLevel"
  /\ tick > 0
  /\ localPlayer_ = 1
  /\ Len(calls) = 2
  /\ calls[1].player = 1
  /\ tickOfLastSetGameOpt_ = 0

\* C5: for a techID below 8000 or above 12095 CreateWreckage never calls the host's
\* wreckage function and returns the null Unit; it returns a non-null Unit, the head of
\* player 6's beacon list, only for a techID in range for which the host reports success.
C5_WreckageTechIDRange ==
  api.fn = "CreateWreckage" =>
    /\ (api.techID < 8000 \/ api.techID > 12095) => (calls = <<>> /\ ret = NULL)
    /\ ret # NULL =>
         /\ api.techID >= 8000 /\ api.techID <= 12095
         /\ Len(calls) = 1
         /\ calls[1].fn = "0x4789F0"
         /\ calls[1].techID = api.techID
         /\ calls[1].result
         /\ ret = beacons

\* a techID just above the range was refused after an earlier wreckage was created
C5_Witness ==
  /\ api.fn = "CreateWreckage"
  /\ api.techID = 12096
  /\ calls = <<>>
  /\ ret = NULL
  /\ beacons # NULL

\* C6: CreateWall(type, area) calls the one-tile CreateWall once for every tile of the
\* rectangle x1..x2 by y1..y2, row by row with y increasing and x increasing within a
\* row, always with the given type, and for no other tile; it makes no call when
\* x1 > x2 or y1 > y2.  CreateTube(area) makes the same calls with MapID::Tube.
C6_WallBlockRowMajor ==
  api.fn \in {"CreateWallArea", "CreateTubeArea"} =>
    LET a == api.area
        w == a.x2 - a.x1 + 1
        t == IF api.fn = "CreateTubeArea" THEN "Tube" ELSE api.type
    IN  IF a.x1 > a.x2 \/ a.y1 > a.y2
          THEN calls = <<>>
          ELSE /\ Len(calls) = w * (a.y2 - a.y1 + 1)
               /\ \A k \in 1 .. Len(calls) :
                    /\ calls[k].fn = "0x478AA0"
                    /\ calls[k].x = a.x1 + ((k - 1) % w)
                    /\ calls[k].y = a.y1 + ((k - 1) \div w)
                    /\ calls[k].type = t

\* a block of walls two tiles wide and at least two tiles high, off the origin
C6_Witness ==
  /\ api.fn = "CreateWallArea"
  /\ api.type = "Wall"
  /\ api.area.x1 = 1 /\ api.area.x2 = 2
  /\ api.area.y1 = 0 /\ api.area.y2 >= 1
  /\ Len(calls) >= 4
  /\ calls[3].x = 1 /\ calls[3].y = 1

\* C7: CreateBlight with a negative spreadSpeed does not call SetBlightSpeed and leaves
\* the blight spread speed as it was; with spreadSpeed >= 0 it sets the speed to that
\* value before it places the blight.  It places the blight with flag 1; UnsetBlight
\* places flag 0 and never changes the spread speed.
C7_BlightSpeedRetained ==
  /\ api.fn = "CreateBlight" =>
       LET place == [fn |-> "0x476EA0", x |-> api.where.x, y |-> api.where.y, flag |-> 1]
       IN  IF api.spreadSpeed < 0
             THEN calls = <<place>> /\ spreadSpeed = api.before
             ELSE /\ calls = <<[fn |-> "BlightManager::SetSpreadSpeed",
                                speed |-> api.spreadSpeed], place>>
                  /\ spreadSpeed = api.spreadSpeed
  /\ api.fn = "UnsetBlight" =>
       /\ calls = <<[fn |-> "0x476EA0", x |-> api.where.x, y |-> api.where.y, flag |-> 0]>>
       /\ spreadSpeed = api.before

\* the blight was created with spreadSpeed = -1 while the speed was not 0
C7_Witness ==
  /\ api.fn = "CreateBlight"
  /\ api.spreadSpeed = -1
  /\ spreadSpeed = api.before
  /\ spreadSpeed > 0
  /\ Len(calls) = 1

\* C8: CreateMeteor hands the host 0 for MeteorSize::Large, 1 for Medium, 2 for Small
\* and -1 for Random.
C8_MeteorSizeAsDocumented ==
  api.fn = "CreateMeteor" =>
    calls[1].size = (CASE api.size = "Large" -> 0
                       [] api.size = "Medium" -> 1
                       [] api.size = "Small" -> 2
                       [] api.size = "Random" -> -1)

PreGenerated ==
  /\ api.fn = "CreateMine"
  /\ api.type \notin {"MagmaVent", "Fumarole"}
  /\ api.yield = "Random"
  /\ api.variant # "Random"

\* C9: when CreateMine makes a mining beacon with yield Random and a variant that is
\* not Random, the yield comes from one GetRand(10) draw: results 0 and 1 give Bar3,
\* 2 to 7 give Bar2, 8 and 9 give Bar1 (two, six and two of the ten results), and the
\* yield used for the variant lookup and handed to the host is never Random.
C9_RandomYieldPreGenerated ==
  PreGenerated =>
    /\ Len(calls) = 3
    /\ calls[1].fn = "GetRand" /\ calls[1].range = 10
    /\ calls[1].result \in 0 .. 9
    /\ calls[2].fn = "GetVariantNum" /\ calls[3].fn = "0x478940"
    /\ calls[2].yield = calls[3].yield
    /\ calls[3].yield # "Random"
    /\ calls[3].yield = (IF calls[1].result \in {0, 1} THEN "Bar3"
                         ELSE IF calls[1].result \in 2 .. 7 THEN "Bar2" ELSE "Bar1")
    /\ Cardinality({r \in 0 .. 9 : PreGenYield(r) = "Bar3"}) = 2
    /\ Cardinality({r \in 0 .. 9 : PreGenYield(r) = "Bar2"}) = 6
    /\ Cardinality({r \in 0 .. 9 : PreGenYield(r) = "Bar1"}) = 2

\* a rare ore beacon of variant 2 whose draw was 7, the last result that gives Bar2
C9_Witness ==
  /\ PreGenerated
  /\ api.type = "RareOre"
  /\ Len(calls) = 3
  /\ calls[1].result = 7
  /\ calls[3].yield = "Bar2"
  /\ ret # NULL

C10_ClockValues ==
  tick >= 0 =>
    /\ Time = tick \div 4
    /\ Mark = tick \div 100
    /\ Mark = Time \div 25

C10_ClockStep ==
  /\ Time' >= Time
  /\ Mark' >= Mark
  /\ Time' # Time => tick' % 4 = 0

\* C10: for every non-negative tick Time() is Tick() / 4 and Mark() is Tick() / 100,
\* both never decrease as the tick advances, Time() changes only at a tick divisible
\* by 4, and Mark() equals Time() / 25.
C10_TimeAndMark == [] C10_ClockValues /\ [][C10_ClockStep]_vars

\* the second mark has begun
C10_Witness ==
  /\ tick = 203
  /\ Time = 50
  /\ Mark = 2

-----------------------------------------------------------------------------
(* Game::AddMessage.  A text buffer is a sequence of characters that ends    *)
(* with the terminator NUL; a std::string_view is a pointer into a buffer    *)
(* and a size; a const char* is the pointer alone.                           *)

NUL == "NUL"

Chars == {"a", "b"}

Buffers ==
  {Append(q, NUL) : q \in UNION {[1 .. n -> Chars] : n \in 0 .. MaxMsgLen}}

\* the views a caller can pass: any part of a buffer before its terminator
StringViews ==
  {[buf |-> b, ptr |-> p, size |-> n] :
     b \in Buffers, p \in 1 .. MaxMsgLen + 1, n \in 0 .. MaxMsgLen} \cap
  {v \in [buf : Buffers, ptr : 1 .. MaxMsgLen + 1, size : 0 .. MaxMsgLen] :
     v.ptr + v.size <= Len(v.buf)}

\* std::string_view::data(): the pointer, without the size
Data(v) == [buf |-> v.buf, ptr |-> v.ptr]

RECURSIVE StrLen(_, _)
\* the characters from p up to the terminator
StrLen(b, p) == IF b[p] = NUL THEN 0 ELSE 1 + StrLen(b, p + 1)

\* std::string_view(const char*): the size is found at the terminator
StringViewOf(d) == [buf |-> d.buf, ptr |-> d.ptr, size |-> StrLen(d.buf, d.ptr)]

\* the text a view or a C string stands for
Text(b, p, n) == [k \in 1 .. n |-> b[p + k - 1]]

\* Location{ }: no associated coordinates
DefaultLocation == [coordinates |-> "none"]

\* Location::operator bool: false for Location{ } alone
LocationBool(l) == l # DefaultLocation

\* Location::GetPixel: the pixel at the centre of the tile
GetPixel(l) == [x |-> (l.x * 32) + 16, y |-> (l.y * 32) + 16]

\* AddMessage(msg, soundID, toPlayerNum, pixelX, pixelY): the host logs the C string
\* at msg.data() when the message is for all players (-1) or for the local player
AddMessagePixel(h, msg, soundID, toPlayerNum, pixelX, pixelY) ==
  LET h1 == Log(h, [fn |-> "AddMessage(pixel)", msg |-> msg, soundID |-> soundID,
                    toPlayerNum |-> toPlayerNum, pixelX |-> pixelX, pixelY |-> pixelY])
      d == Data(msg)
  IN  IF (toPlayerNum = -1) \/ (toPlayerNum = LocalPlayer)
        THEN Log(h1, [fn |-> "MessageLog::AddMessage", pixelX |-> pixelX,
                      pixelY |-> pixelY, text |-> Text(d.buf, d.ptr, StrLen(d.buf, d.ptr)),
                      soundID |-> soundID])
        ELSE h1

\* AddMessage(msg, soundID, toPlayerNum, Location tile): msg.data() is what is passed on
AddMessageTile(h, msg, soundID, toPlayerNum, tile) ==
  LET pixel == IF LocationBool(tile) THEN GetPixel(tile) ELSE [x |-> 0, y |-> -1]
  IN  AddMessagePixel(h, StringViewOf(Data(msg)), soundID, toPlayerNum, pixel.x, pixel.y)

SoundIDs == {"Beep", "Savant"}

PixelCoords == {-1, 16}

DoAddMessagePixel ==
  \E m \in StringViews, sn \in SoundIDs, p \in PlayerArgs, px \in PixelCoords,
     py \in PixelCoords :
    Called([fn |-> "AddMessagePixel", msg |-> m, soundID |-> sn, toPlayerNum |-> p,
            pixelX |-> px, pixelY |-> py],
           AddMessagePixel(HostNow, m, sn, p, px, py))

DoAddMessageTile ==
  \E m \in StringViews, sn \in SoundIDs, p \in PlayerArgs,
     l \in Tiles \cup {DefaultLocation} :
    Called([fn |-> "AddMessageTile", msg |-> m, soundID |-> sn, toPlayerNum |-> p,
            tile |-> l],
           AddMessageTile(HostNow, m, sn, p, l))

MsgNext ==
  \/ DoAddMessagePixel
  \/ DoAddMessageTile

SpecMsg == OptInit /\ [][MsgNext]_vars

\* the pixel coordinates AddMessage is to pass on for a tile
ExpectedPixel(l) ==
  IF l = DefaultLocation THEN [x |-> 0, y |-> -1] ELSE GetPixel(l)

\* C11: AddMessage(msg, soundID, toPlayerNum, tile) passes the pixel coordinates
\* (0, -1) to the pixel-coordinate overload for the default Location{ } and the tile's
\* pixel coordinates for a valid Location, and passes msg, soundID and toPlayerNum
\* on unchanged.
C11_AddMessageForwards ==
  api.fn = "AddMessageTile" =>
    calls[1] = [fn |-> "AddMessage(pixel)", msg |-> api.msg, soundID |-> api.soundID,
                toPlayerNum |-> api.toPlayerNum,
                pixelX |-> ExpectedPixel(api.tile).x, pixelY |-> ExpectedPixel(api.tile).y]

\* the part of C11 that the code keeps: the coordinates, the sound and the player are
\* passed on as stated, and so is msg when it ends where its buffer's terminator is
AddMessageForwardsCString ==
  api.fn = "AddMessageTile" =>
    /\ calls[1].fn = "AddMessage(pixel)"
    /\ calls[1].soundID = api.soundID
    /\ calls[1].toPlayerNum = api.toPlayerNum
    /\ calls[1].pixelX = ExpectedPixel(api.tile).x
    /\ calls[1].pixelY = ExpectedPixel(api.tile).y
    /\ calls[1].msg = StringViewOf(Data(api.msg))
    /\ api.msg.ptr + api.msg.size = Len(api.msg.buf) => calls[1].msg = api.msg


-----------------------------------------------------------------------------
(* The area enumerators:  InRangeEnumerator, InRectEnumerator,              *)
(* LocationEnumerator and ClosestEnumerator over AreaIteratorBase           *)

AreaEnumKinds ==
  {"InRangeEnumerator", "InRectEnumerator", "LocationEnumerator", "ClosestEnumerator"}

\* Result{}: a default Unit, or for ClosestEnumerator a default pair<Unit, uint32>
DefaultUnit == [unitID |-> 0]

DefaultResult(kind) ==
  IF kind = "ClosestEnumerator" THEN [first |-> DefaultUnit, second |-> 0] ELSE DefaultUnit

\* the units the host can find in the area, and their distances
AreaUnits == {[unitID |-> n] : n \in 1 .. MaxAreaUnits}

Distances == 0 .. MaxDistance

\* what one call of the host's GetNext does with the references it is given:
\* it finds no unit and writes nothing, or it writes the unit found (and, for
\* ClosestEnumerator, the distance of that unit)
NoWrite == [wrote |-> FALSE]

HostOutcomes(kind) ==
  {NoWrite} \cup
  {[wrote |-> TRUE, unit |-> u, distance |-> d] :
     u \in AreaUnits,
     d \in IF kind = "ClosestEnumerator" THEN Distances ELSE {0}}

\* Iterator(): result_ = { }
AreaIterator(kind) == [live |-> TRUE, result_ |-> DefaultResult(kind)]

\* Iterator::GetNext: the thunk hands the host result_, or result.first and
\* result.second; the ibool it returns is dropped by operator++
GetNext(i, kind, o) ==
  IF ~o.wrote
    THEN i
    ELSE IF kind = "ClosestEnumerator"
           THEN [i EXCEPT !.result_ = [first |-> o.unit, second |-> o.distance]]
           ELSE [i EXCEPT !.result_ = o.unit]

\* an operator++ that calls GetNext on the result it holds
AreaIncNoClear(i, kind, o) ==
  [it |-> GetNext(i, kind, o),
   call |-> [fn |-> "GetNext", result |-> i.result_, host |-> o]]

\* AreaIteratorBase::operator++:  result_ = { };  e.GetNext(result_);
AreaInc(i, kind, o) ==
  LET e == [i EXCEPT !.result_ = DefaultResult(kind)]
  IN  [it |-> GetNext(e, kind, o),
       call |-> [fn |-> "GetNext", result |-> e.result_, host |-> o]]

\* AreaIteratorBase::operator==
AreaEq(i, j) == i.result_ = j.result_

\* AreaIteratorBase::operator bool
AreaBool(i, kind) == i.result_ # DefaultResult(kind)

\* AreaIteratorBase::operator*
AreaDeref(i) == i.result_

\* Iterator(args):  InternalCtor<...>(args);  ++(*this);
AreaCtor(kind, o) == AreaInc(AreaIterator(kind), kind, o)

\* begin() and end() of the four enumerators
AreaBegin(kind, o) == AreaCtor(kind, o)

AreaEnd(kind) == AreaIterator(kind)

AreaInit ==
  /\ HeapInit(0)
  /\ GameIdle
  /\ enumKind \in AreaEnumKinds
  /\ type_ = Any
  /\ cache = [c \in CacheNames |-> <<>>]
  /\ newState = "unallocated"
  /\ iters = [s \in SlotNames |-> NoIter]
  /\ lastRef = [cache |-> "none", idx |-> 0, unit |-> NULL]
  /\ lastEq = "none"
  /\ derefLog = <<>>
  /\ ub = FALSE
  /\ pc = "idle"
  /\ yielded = <<>>

areaFrame == <<pPlayerNext_, typeID, pVehicleList_, pBuildingList_, pEntityList_,
               enumKind, type_, cache, newState, lastRef, derefLog, ub,
               tick, tickOfLastSetGameOpt_, localPlayer_, spreadSpeed, beacons>>

\* for (auto r : e):  it = e.begin(), other = e.end()
AreaLoopBegin ==
  /\ pc = "idle"
  /\ \E o \in HostOutcomes(enumKind) :
       LET b == AreaBegin(enumKind, o)
       IN  /\ iters' = [iters EXCEPT !["it"] = b.it, !["other"] = AreaEnd(enumKind)]
           /\ calls' = Append(calls, b.call)
  /\ pc' = "loop"
  /\ UNCHANGED <<areaFrame, yielded, lastEq, api, ret>>

\* it != other: the body sees *it, then ++it
AreaLoopStep ==
  /\ pc = "loop"
  /\ Len(calls) < MaxGetNext
  /\ ~AreaEq(iters["it"], iters["other"])
  /\ yielded' = Append(yielded, AreaDeref(iters["it"]))
  /\ \E o \in HostOutcomes(enumKind) :
       LET n == AreaInc(iters["it"], enumKind, o)
       IN  /\ iters' = [iters EXCEPT !["it"] = n.it]
           /\ calls' = Append(calls, n.call)
  /\ lastEq' = FALSE
  /\ UNCHANGED <<areaFrame, pc, api, ret>>

\* it == other: the loop ends
AreaLoopExit ==
  /\ pc = "loop"
  /\ AreaEq(iters["it"], iters["other"])
  /\ pc' = "done"
  /\ lastEq' = TRUE
  /\ UNCHANGED <<areaFrame, iters, calls, yielded, api, ret>>

\* the caller tests the iterator:  if (it) ...,  it == e.end()
AreaTest ==
  /\ pc = "loop"
  /\ api' = [fn |-> "operator bool"]
  /\ ret' = [it |-> iters["it"],
             bool |-> AreaBool(iters["it"], enumKind),
             eq |-> AreaEq(iters["it"], AreaEnd(enumKind))]
  /\ UNCHANGED <<areaFrame, iters, calls, yielded, pc, lastEq>>

AreaNext == AreaLoopBegin \/ AreaLoopStep \/ AreaLoopExit \/ AreaTest

SpecArea == AreaInit /\ [][AreaNext]_vars

-----------------------------------------------------------------------------
(* Properties of the area enumerators *)

\* the result a call of GetNext wrote
Written(kind, o) ==
  IF kind = "ClosestEnumerator" THEN [first |-> o.unit, second |-> o.distance] ELSE o.unit

\* C12: for each of the four area enumerators, begin() has already made the
\* first GetNext call; every GetNext call is handed a result cleared to the
\* default value; an iterator tests false, and equal to end(), exactly when its
\* result is the default value; so the begin()-to-end() loop has seen exactly
\* the results written by the GetNext calls before the last one, each of which
\* wrote a unit, and it ends only after a call that wrote none (seeing nothing
\* when that is the first call).
C12_AreaLoopYieldsWrittenResults ==
  /\ pc \in {"loop", "done"} =>
       /\ Len(calls) >= 1
       /\ \A k \in 1 .. Len(calls) : calls[k].result = DefaultResult(enumKind)
       /\ \A k \in 1 .. Len(calls) - 1 : calls[k].host.wrote
       /\ yielded = [k \in 1 .. Len(calls) - 1 |-> Written(enumKind, calls[k].host)]
       /\ iters["it"].result_ =
            IF calls[Len(calls)].host.wrote
              THEN Written(enumKind, calls[Len(calls)].host)
              ELSE DefaultResult(enumKind)
  /\ pc = "done" => ~calls[Len(calls)].host.wrote
  /\ api.fn = "operator bool" =>
       /\ ret.bool = (ret.it.result_ # DefaultResult(enumKind))
       /\ ret.eq = ~ret.bool

\* a ClosestEnumerator loop has ended after two results, the first at distance 0
C12_Witness ==
  /\ enumKind = "ClosestEnumerator"
  /\ pc = "done"
  /\ Len(yielded) = 2
  /\ yielded[1].second = 0
  /\ api.fn = "operator bool"

=============================================================================
